---- MODULE Spec2Model ----
(***************************************************************************)
(* A model of pybilt/lipid_grid/lipid_grid.py: the per-leaflet lipid grid  *)
(* (LipidGrid2d), the pair of grids of a bilayer (LipidGrids) and the      *)
(* metrics derived from them.                                              *)
(*                                                                         *)
(* Numbers.  The code computes in floating point.  The model computes the  *)
(* same expressions exactly, over rationals [n |-> numerator, d |->        *)
(* denominator] kept in lowest terms with d > 0.  A value that numpy would *)
(* report as inf or nan (a division by zero) is the record NaN, which      *)
(* every later operation propagates.  Lipid coordinates and heights are    *)
(* integers.  Arrays are functions over 0-based index ranges, as in numpy. *)
(***************************************************************************)
EXTENDS Integers, Sequences, FiniteSets, TLC

VARIABLES
    pc,          \* "new": LipidGrids(...) not yet called; "built"; "failed"
    ctor_args,   \* the bin counts and the box of the constructor call
    ctor_err,    \* the exception the constructor ended with, or "none"
    frame,       \* self.frame
    leaflets,    \* self.leaflets
    nbins_x,     \* self.nbins_x
    nbins_y,     \* self.nbins_y
    leaf_grid,   \* self.leaf_grid: 'upper' and 'lower' LipidGrid2d objects
    key_order,   \* the order in which the dicts keyed 'upper' and 'lower'
                 \* (self.leaflets, self.leaf_grid) iterate their keys
    call,        \* the last method call made on the built object
    ret          \* what that call returned, or the exception it raised

vars == <<pc, ctor_args, ctor_err, frame, leaflets, nbins_x, nbins_y,
          leaf_grid, key_order, call, ret>>

-----------------------------------------------------------------------------
(* Bounds of the model. *)

\* Bin counts offered to the constructor run from -2 to MaxBins.
MaxBins == 2
\* Lateral box lengths offered run from 0 to MaxBox.
MaxBox == 3
\* Lateral lipid coordinates offered run from 0 to MaxPos (and lie in the box).
MaxPos == 1
\* The frame holds the lipids 0 .. NumLipids-1.
NumLipids == 2

BinCounts == -2..MaxBins
BoxLengths == 0..MaxBox
LipidIds == 0..(NumLipids - 1)
\* The species a lipid may be of: its label, and the unwrapped out-of-plane
\* coordinate at which a lipid of that species sits.
LipidKinds == {[type |-> "POPC", z |-> 5], [type |-> "DOPE", z |-> 2]}
LeafNames == {"upper", "lower"}

None == "None"
\* No call made yet, or its result dropped.
NoCall == [op |-> "none"]
NoRet == [err |-> "nocall"]

-----------------------------------------------------------------------------
(* Exact arithmetic standing for the code's floating point. *)

RECURSIVE GCD(_, _)
GCD(a, b) == IF b = 0 THEN a ELSE GCD(b, a % b)

AbsInt(a) == IF a < 0 THEN -a ELSE a

NaN == [n |-> 0, d |-> 0]

Rat(n, d) ==
    IF d = 0 THEN NaN
    ELSE LET g == GCD(AbsInt(n), AbsInt(d))
             s == IF d < 0 THEN -1 ELSE 1
         IN  [n |-> (s * n) \div g, d |-> (s * d) \div g]

R(i) == [n |-> i, d |-> 1]

IsFinite(a) == a.d # 0

RAdd(a, b) ==
    IF a.d = 0 \/ b.d = 0 THEN NaN ELSE Rat(a.n * b.d + b.n * a.d, a.d * b.d)
RSub(a, b) ==
    IF a.d = 0 \/ b.d = 0 THEN NaN ELSE Rat(a.n * b.d - b.n * a.d, a.d * b.d)
RMul(a, b) ==
    IF a.d = 0 \/ b.d = 0 THEN NaN ELSE Rat(a.n * b.n, a.d * b.d)
RDiv(a, b) ==
    IF a.d = 0 \/ b.d = 0 \/ b.n = 0 THEN NaN ELSE Rat(a.n * b.d, a.d * b.n)
RAbs(a) == [n |-> AbsInt(a.n), d |-> a.d]
\* a < b; a comparison with nan is false.
RLess(a, b) == a.d # 0 /\ b.d # 0 /\ a.n * b.d < b.n * a.d

-----------------------------------------------------------------------------
(* numpy.linspace(start, stop, num, endpoint=True) for num >= 0: num       *)
(* evenly spaced values from start to stop, both ends included.            *)
linspace(start, stop, num) ==
    [i \in 0..(num - 1) |->
        IF num = 1 THEN start
        ELSE RAdd(start, RMul(R(i), RDiv(RSub(stop, start), R(num - 1))))]

\* len() of a 0-based array.
Len0(a) == Cardinality(DOMAIN a)

-----------------------------------------------------------------------------
(* LipidGrid2d.__init__ *)

\* The grid axis of lines 157-167 (x) and 170-180 (y).  The loop that fills
\* the centers runs j over range(0, n_fill): n_fill is len(x_edges) - 1 for
\* BOTH axes (line 178 reads self._x_nedges).  err is the exception raised.
GridAxis(box_len, nbins, n_fill) ==
    IF nbins + 1 < 0 THEN [err |-> "ValueError"]   \* linspace: negative num
    ELSE
    LET edges == linspace(R(0), R(box_len), nbins + 1)
    IN  IF Len0(edges) < 2 THEN [err |-> "IndexError"]   \* edges[1]
        ELSE
        LET incr == RSub(edges[1], edges[0])
            incr_h == RDiv(incr, R(2))
        IN  IF n_fill > nbins THEN [err |-> "IndexError"] \* centers[j]
            ELSE [err |-> "none",
                  min |-> R(0),
                  max |-> R(box_len),
                  edges |-> edges,
                  incr |-> incr,
                  centers |-> [j \in 0..(nbins - 1) |->
                                  IF j < n_fill THEN RAdd(edges[j], incr_h)
                                  ELSE R(0)],
                  length |-> RSub(R(box_len), R(0))]

\* GridAxis depends on three small integers only: its values are tabulated
\* once, and the constructor reads the table.
GridAxisOf ==
    [b \in BoxLengths, n \in BinCounts, f \in BinCounts |-> GridAxis(b, n, f)]

\* r_min = 1.0e10 of line 194: larger than every distance in a box of the
\* modelled size, so it is kept as a value above every rational.
r_min_init == [n |-> 1, d |-> 0]

\* rxy < r_min of line 213, on the squares of both sides.
CloserThan(rxy2, r_min2) ==
    IF r_min2 = r_min_init THEN TRUE ELSE RLess(rxy2, r_min2)

\* Lines 203-212: the squared planar distance from the point (x, y) to
\* lipid i.  Both minimum-image tests compare against bxh (lines 206, 209).
PlanarDist2(com_frame, i, x, y) ==
    LET boxx == R(com_frame.box[1])
        boxy == R(com_frame.box[2])
        bxh == RDiv(boxx, R(2))
        byh == RDiv(boxy, R(2))
        xi == R(com_frame.lipidcom[i].com[1])
        yi == R(com_frame.lipidcom[i].com[2])
        dx0 == RSub(x, xi)
        dy0 == RSub(y, yi)
        dx == IF RLess(bxh, RAbs(dx0))
              THEN RSub(RSub(boxx, RAbs(RSub(x, bxh))), RAbs(RSub(xi, bxh)))
              ELSE dx0
        dy == IF RLess(bxh, RAbs(dy0))
              THEN RSub(RSub(boxy, RAbs(RSub(y, byh))), RAbs(RSub(yi, byh)))
              ELSE dy0
    IN  RAdd(RMul(dx, dx), RMul(dy, dy))

\* Lines 194-216: the scan of the candidate list for one grid point, from
\* position k of indices on; best is (r_min squared, i_min, z_min).
RECURSIVE ScanLipids(_, _, _, _, _, _)
ScanLipids(com_frame, indices, k, x, y, best) ==
    IF k > Len(indices) THEN best
    ELSE
    LET i == indices[k]
        zi == com_frame.lipidcom[i].com_unwrap
        rxy2 == PlanarDist2(com_frame, i, x, y)
    IN  ScanLipids(com_frame, indices, k + 1, x, y,
            IF CloserThan(rxy2, best.r_min2)
            THEN [r_min2 |-> rxy2, i_min |-> i, z_min |-> zi]
            ELSE best)

\* Lines 194-196 and the scan: the lipid chosen for the point (x, y).
NearestLipid(com_frame, indices, x, y) ==
    ScanLipids(com_frame, indices, 1, x, y,
               [r_min2 |-> r_min_init, i_min |-> 0, z_min |-> 0])

Cells(nx, ny) == (0..(nx - 1)) \X (0..(ny - 1))

\* LipidGrid2d(com_frame, com_frame_indices, plane=[0, 1], nxbins, nybins).
\* xa and ya are the two axes (an axis that raised ends the construction);
\* the y centers are filled over range(1, self._x_nedges), nxbins of them;
\* near is the lipid chosen at each grid point.
LipidGrid2d(com_frame, indices, nxbins, nybins) ==
    LET Assign(xa, ya, near) ==
            [err |-> "none",
             x_nbins |-> nxbins, y_nbins |-> nybins,
             x_min |-> xa.min, x_max |-> xa.max, x_edges |-> xa.edges,
             x_incr |-> xa.incr, x_centers |-> xa.centers,
             y_min |-> ya.min, y_max |-> ya.max, y_edges |-> ya.edges,
             y_incr |-> ya.incr, y_centers |-> ya.centers,
             x_length |-> xa.length, y_length |-> ya.length,
             lipid_grid |-> [c \in Cells(nxbins, nybins) |-> near[c].i_min],
             lipid_grid_z |-> [c \in Cells(nxbins, nybins) |-> near[c].z_min]]
        Axes(xa, ya) ==
            IF xa.err # "none" THEN [err |-> xa.err]
            ELSE IF ya.err # "none" THEN [err |-> ya.err]
            ELSE Assign(xa, ya,
                        [c \in Cells(nxbins, nybins) |->
                            NearestLipid(com_frame, indices,
                                         xa.centers[c[1]], ya.centers[c[2]])])
    IN  Axes(GridAxisOf[com_frame.box[1], nxbins, nxbins],
             GridAxisOf[com_frame.box[2], nybins, nxbins])

-----------------------------------------------------------------------------
(* LipidGrids.__init__ (lines 305-326) *)

LipidGrids_init(com_frame, lfs, nxbins, nybins) ==
    LET Both(up, lo) ==
            IF up.err # "none" THEN [err |-> up.err]
            ELSE IF lo.err # "none" THEN [err |-> lo.err]
            ELSE [err |-> "none",
                  leaf_grid |-> [leaf \in LeafNames |->
                                    IF leaf = "upper" THEN up ELSE lo]]
    IN  Both(LipidGrid2d(com_frame, lfs["upper"].member_indices, nxbins, nybins),
             LipidGrid2d(com_frame, lfs["lower"].member_indices, nxbins, nybins))

-----------------------------------------------------------------------------
(* The inputs of the constructor. *)

\* Lateral coordinates are pre-wrapped into [0, box); a box of length 0
\* leaves the coordinate 0.
Wrapped(box_len) ==
    IF box_len > 0 THEN {p \in 0..MaxPos : p < box_len} ELSE {0}

LipidComs(bx, by) ==
    {[com |-> p, com_unwrap |-> kind.z, type |-> kind.type] :
        p \in Wrapped(bx) \X Wrapped(by), kind \in LipidKinds}

Frames(bx, by) ==
    [box : {<<bx, by>>}, lipidcom : [LipidIds -> LipidComs(bx, by)]]

\* Sequences without repetition over the set S.
RECURSIVE Perms(_)
Perms(S) ==
    IF S = {} THEN {<<>>}
    ELSE UNION {{<<e>> \o p : p \in Perms(S \ {e})} : e \in S}

SeqRange(s) == {s[k] : k \in DOMAIN s}

\* The member lists of the two leaflets: disjoint, in any order.
MemberLists ==
    UNION {UNION {{[upper |-> u, lower |-> l] : u \in Perms(U), l \in Perms(L)}
                  : L \in SUBSET (LipidIds \ U)} : U \in SUBSET LipidIds}

\* Leaflet.get_group_names(): the species of the members, first seen first.
RECURSIVE GroupNames(_, _, _)
GroupNames(com_frame, members, k) ==
    IF k = 0 THEN <<>>
    ELSE LET before == GroupNames(com_frame, members, k - 1)
             name == com_frame.lipidcom[members[k]].type
         IN  IF name \in SeqRange(before) THEN before ELSE Append(before, name)

Leaflet(com_frame, members) ==
    [member_indices |-> members,
     group_names |-> GroupNames(com_frame, members, Len(members))]

-----------------------------------------------------------------------------
(* The methods.  Each takes the object it is called on and returns a       *)
(* record: self, the object when the method returns, and ret, what the     *)
(* caller gets: [err |-> "none", val |-> the value returned], or           *)
(* [err |-> the exception raised].                                         *)

Returns(v) == [err |-> "none", val |-> v]
Raises(e) == [err |-> e]

\* LipidGrid2d.get_index_at (lines 223-235) and get_z_at (lines 237-249)
get_index_at(grid, ix, iy) == grid.lipid_grid[<<ix, iy>>]
get_z_at(grid, ix, iy) == grid.lipid_grid_z[<<ix, iy>>]

\* The k-th grid point (k = 0, 1, ...) of the loops "for ix in range(nx):
\* for iy in range(ny)".
CellAt(k, ny) == <<k \div ny, k % ny>>

\* z_perturb_grid had it also shifted the object's own array in place, by the
\* whole part of the mean ("z_grid -= int(z_avg)").
z_perturb_grid_in_place(grid) ==
    LET z_grid == grid.lipid_grid_z
        n == Len0(z_grid)
        RECURSIVE Sum(_)
        Sum(k) == IF k = 0 THEN 0
                  ELSE Sum(k - 1) + z_grid[CellAt(k - 1, grid.y_nbins)]
        z_avg == RDiv(R(Sum(n)), R(n))
        z_pert == [c \in DOMAIN z_grid |-> RSub(R(z_grid[c]), z_avg)]
    IN  [self |-> [grid EXCEPT !.lipid_grid_z =
                      [c \in DOMAIN z_grid |-> z_grid[c] - (Sum(n) \div n)]],
         ret |-> Returns(z_pert)]

\* LipidGrid2d.z_perturb_grid (lines 251-261): z_grid names the object's own
\* array; z_grid.mean() and z_grid - z_avg build new values.
z_perturb_grid(grid) ==
    LET z_grid == grid.lipid_grid_z
        n == Len0(z_grid)
        RECURSIVE Sum(_)
        Sum(k) == IF k = 0 THEN 0
                  ELSE Sum(k - 1) + z_grid[CellAt(k - 1, grid.y_nbins)]
        z_avg == RDiv(R(Sum(n)), R(n))
        z_pert == [c \in DOMAIN z_grid |-> RSub(R(z_grid[c]), z_avg)]
    IN  [self |-> grid, ret |-> Returns(z_pert)]

\* thickness_grid had it clamped a negative thickness to zero.
thickness_grid_clamped(self) ==
    LET Diff(c) == get_z_at(self.leaf_grid["upper"], c[1], c[2])
                   - get_z_at(self.leaf_grid["lower"], c[1], c[2])
        tgrid == [c \in Cells(self.nbins_x, self.nbins_y) |->
                    IF Diff(c) < 0 THEN 0 ELSE Diff(c)]
    IN  [self |-> self,
         ret |-> [err |-> "none", val |-> tgrid,
                  warnings |-> {c \in DOMAIN tgrid : Diff(c) < 0}]]

\* LipidGrids.thickness_grid (lines 328-338); warnings: the grid points for
\* which line 337 prints its warning.
thickness_grid(self) ==
    LET tgrid == [c \in Cells(self.nbins_x, self.nbins_y) |->
                    get_z_at(self.leaf_grid["upper"], c[1], c[2])
                    - get_z_at(self.leaf_grid["lower"], c[1], c[2])]
    IN  [self |-> self,
         ret |-> [err |-> "none", val |-> tgrid,
                  warnings |-> {c \in DOMAIN tgrid : tgrid[c] < 0}]]

\* pybilt.common.running_stats.RunningStats: a streaming accumulator of the
\* mean and the (population) deviation.  It is kept as the count, the sum
\* and the sum of squares of the values pushed; the deviation is given by
\* its square.
RunningStats == [n |-> 0, sum |-> R(0), sumsq |-> R(0)]
push(rs, v) ==
    [n |-> rs.n + 1, sum |-> RAdd(rs.sum, v), sumsq |-> RAdd(rs.sumsq, RMul(v, v))]
mean(rs) == IF rs.n = 0 THEN R(0) ELSE RDiv(rs.sum, R(rs.n))
deviation_sq(rs) ==
    IF rs.n = 0 THEN R(0)
    ELSE RSub(RDiv(rs.sumsq, R(rs.n)), RMul(mean(rs), mean(rs)))

\* LipidGrids.average_thickness (lines 340-351)
average_thickness(self, return_grid) ==
    LET t == thickness_grid(self)
        tgrid == t.ret.val
        RECURSIVE Run(_)
        Run(k) == IF k = 0 THEN RunningStats
                  ELSE push(Run(k - 1), R(tgrid[CellAt(k - 1, self.nbins_y)]))
        trun == Run(self.nbins_x * self.nbins_y)
        avg_out == <<mean(trun), deviation_sq(trun)>>
    IN  [self |-> t.self,
         ret |-> Returns(IF return_grid THEN <<avg_out, tgrid>> ELSE avg_out)]

\* do_leaflet had an unknown selector named no leaflet at all.
do_leaflet_known_only(leaflet) ==
    IF leaflet = "both" THEN <<"upper", "lower">>
    ELSE IF leaflet = "upper" \/ leaflet = "lower" THEN <<leaflet>>
    ELSE <<>>

\* Lines 354-365 (and 450-461, 508-519): the leaflets a selector names.
do_leaflet(leaflet) ==
    IF leaflet = "both" THEN <<"upper", "lower">>
    ELSE IF leaflet = "upper" \/ leaflet = "lower" THEN <<leaflet>>
    ELSE <<"upper", "lower">>   \* unknown option: warning, default "both"

\* map_to_grid had it read the dict with a default
\* ("com_values_dict.get(com_ind, 0)").
map_to_grid_with_default(self, com_values_dict, leaflet) ==
    LET leaves == IF leaflet \in {"upper", "lower"} THEN {leaflet}
                  ELSE {"upper", "lower"}
        Value(com_ind) == IF com_ind \in DOMAIN com_values_dict
                          THEN com_values_dict[com_ind] ELSE 0
    IN  [self |-> self,
         ret |-> [err |-> "none",
                  val |-> [leaf \in leaves |->
                             [c \in Cells(self.nbins_x, self.nbins_y) |->
                                 Value(get_index_at(self.leaf_grid[leaf],
                                                    c[1], c[2]))]],
                  warned |-> leaflet \notin {"both", "upper", "lower"}]]

\* LipidGrids.map_to_grid (lines 353-376).  com_values_dict[com_ind] raises
\* KeyError for a key the dict does not hold.
map_to_grid(self, com_values_dict, leaflet) ==
    LET leaves == do_leaflet(leaflet)
        missing == \E k \in DOMAIN leaves :
                      \E c \in Cells(self.nbins_x, self.nbins_y) :
                         get_index_at(self.leaf_grid[leaves[k]], c[1], c[2])
                            \notin DOMAIN com_values_dict
        out_dict == [leaf \in SeqRange(leaves) |->
                       [c \in Cells(self.nbins_x, self.nbins_y) |->
                           com_values_dict[
                               get_index_at(self.leaf_grid[leaf], c[1], c[2])]]]
    IN  [self |-> self,
         ret |-> IF missing THEN Raises("KeyError")
                 ELSE [err |-> "none", val |-> out_dict,
                       warned |-> leaflet \notin {"both", "upper", "lower"}]]

\* LipidGrids.grid_to_dict (lines 440-447): a later grid point of the same
\* lipid overwrites an earlier one.
grid_to_dict(self, in_grid, leaflet) ==
    IF leaflet \notin DOMAIN self.leaf_grid
    THEN [self |-> self, ret |-> Raises("KeyError")]
    ELSE
    LET grid == self.leaf_grid[leaflet]
        npoints == self.nbins_x * self.nbins_y
        keys == {get_index_at(grid, c[1], c[2]) :
                    c \in Cells(self.nbins_x, self.nbins_y)}
        Last(l_i) == CHOOSE k \in 0..(npoints - 1) :
                        /\ grid.lipid_grid[CellAt(k, self.nbins_y)] = l_i
                        /\ \A k2 \in (k + 1)..(npoints - 1) :
                              grid.lipid_grid[CellAt(k2, self.nbins_y)] # l_i
    IN  [self |-> self,
         ret |-> Returns([l_i \in keys |->
                            in_grid[CellAt(Last(l_i), self.nbins_y)]])]

\* "if name not in names: names.append(name)" for each name of more, in
\* order (lines 386-388, 570-574, 604-608).
RECURSIVE AppendNew(_, _, _)
AppendNew(names, more, k) ==
    IF k > Len(more) THEN names
    ELSE AppendNew(IF more[k] \in SeqRange(names) THEN names
                   ELSE Append(names, more[k]),
                   more, k + 1)

\* The position of name in names, counted from 0.
IndexOf(names, name) == (CHOOSE k \in DOMAIN names : names[k] = name) - 1

\* Lines 398-411: the loop over the members of both leaflets; pairs lists
\* (leaflet, lipid) in the order of the loop, acc is the state before pair k.
RECURSIVE AreaLoop(_, _, _, _)
AreaLoop(self, pairs, k, acc) ==
    IF k > Len(pairs) \/ acc.err # "none" THEN acc
    ELSE
    LET leaf == pairs[k][1]
        i == pairs[k][2]
        grid == self.leaf_grid[leaf]
        area_per_bin == RMul(grid.x_incr, grid.y_incr)
        rname == self.frame.lipidcom[i].type
        nlocs == Cardinality({c \in DOMAIN grid.lipid_grid :
                                 grid.lipid_grid[c] = i})
        area == RMul(area_per_bin, R(nlocs))
    IN  AreaLoop(self, pairs, k + 1,
            IF rname \notin DOMAIN acc.area_run_per_res_type
            THEN [acc EXCEPT !.err = "KeyError"]
            ELSE [err |-> "none",
                  area_per_lipid |->
                      [j \in DOMAIN acc.area_per_lipid \cup {i} |->
                          IF j = i THEN area ELSE acc.area_per_lipid[j]],
                  area_run_per_res_type |->
                      [acc.area_run_per_res_type EXCEPT ![rname] = push(@, area)],
                  area_run |-> push(acc.area_run, area)])

\* LipidGrids.area_per_lipid (lines 378-422)
area_per_lipid(self) ==
    LET leaves == <<"upper", "lower">>
        resnames == AppendNew(AppendNew(<<>>, self.leaflets["upper"].group_names, 1),
                              self.leaflets["lower"].group_names, 1)
        Pairs(leaf) == [k \in DOMAIN self.leaflets[leaf].member_indices |->
                           <<leaf, self.leaflets[leaf].member_indices[k]>>]
        done == AreaLoop(self, Pairs("upper") \o Pairs("lower"), 1,
                    [err |-> "none",
                     area_per_lipid |-> <<>>,
                     area_run_per_res_type |->
                         [name \in SeqRange(resnames) |-> RunningStats],
                     area_run |-> RunningStats])
        average_per_res == [name \in SeqRange(resnames) |->
                               <<mean(done.area_run_per_res_type[name]),
                                 deviation_sq(done.area_run_per_res_type[name])>>]
    IN  [self |-> self,
         ret |-> IF done.err # "none" THEN Raises(done.err)
                 ELSE Returns(<<mean(done.area_run), average_per_res,
                                done.area_per_lipid>>)]

\* Lines 563-574 and 597-608: the species labels in the order in which the
\* loop over the dict's keys first meets them; the integer id of a label is
\* its position in this list.
type_groups(self) ==
    LET RECURSIVE Over(_, _)
        Over(groups, k) ==
            IF k > Len(self.key_order) THEN groups
            ELSE Over(AppendNew(groups,
                                self.leaflets[self.key_order[k]].group_names, 1),
                      k + 1)
    IN  Over(<<>>, 1)

\* group_to_int had the ids followed the alphabetical order of the labels
\* instead of the order in which the loop first meets them.
group_to_int_alphabetical(self) ==
    LET groups == type_groups(self)
    IN  [name \in SeqRange(groups) |->
            IF name = "POPC" /\ "DOPE" \in SeqRange(groups) THEN 1 ELSE 0]

group_to_int(self) ==
    LET groups == type_groups(self)
    IN  [name \in SeqRange(groups) |-> IndexOf(groups, name)]

\* Lines 584-586 and 617-619 raise KeyError at a grid point whose lipid is
\* of a species that has no integer id.
TypeLookupFails(self) ==
    \E leaf \in LeafNames : \E c \in Cells(self.nbins_x, self.nbins_y) :
        self.frame.lipidcom[get_index_at(self.leaf_grid[leaf], c[1], c[2])].type
            \notin DOMAIN group_to_int(self)

\* LipidGrids.get_integer_type_arrays (lines 560-592)
get_integer_type_arrays(self) ==
    LET g2i == group_to_int(self)
        grids_dict ==
            [leaf \in LeafNames |->
                [c \in Cells(self.leaf_grid[leaf].x_nbins,
                             self.leaf_grid[leaf].y_nbins) |->
                    g2i[self.frame.lipidcom[
                            get_index_at(self.leaf_grid[leaf], c[1], c[2])].type]]]
    IN  [self |-> self,
         ret |-> IF TypeLookupFails(self) THEN Raises("KeyError")
                 ELSE Returns(<<grids_dict, g2i>>)]

\* LipidGrids.get_one_array_per_leaflet (lines 594-629): per leaflet the
\* list of (x, y, lipid index, type id, species label), one per grid point.
get_one_array_per_leaflet(self) ==
    LET g2i == group_to_int(self)
        Entry(leaf, c) ==
            LET grid == self.leaf_grid[leaf]
                ic == get_index_at(grid, c[1], c[2])
                oname == self.frame.lipidcom[ic].type
            IN  <<grid.x_centers[c[1]], grid.y_centers[c[2]],
                  grid.lipid_grid[c], g2i[oname], oname>>
        grids_dict ==
            [leaf \in LeafNames |->
                [k \in 1..(self.nbins_x * self.nbins_y) |->
                    Entry(leaf, CellAt(k - 1, self.nbins_y))]]
    IN  [self |-> self,
         ret |-> IF TypeLookupFails(self) THEN Raises("KeyError")
                 ELSE Returns(grids_dict)]

\* An optional argument left at its default None, and one that was passed:
\* a dict or an array is given by its items, at; an array of two dimensions
\* has ndim = 2 and rows as items.
NotGiven == [given |-> FALSE]
Given(items) == [given |-> TRUE, ndim |-> 1, at |-> items]
Given2d(rows) == [given |-> TRUE, ndim |-> 2, at |-> rows]

\* LipidGrids.get_xyzc (lines 449-505).  X, Y, Z and (unless color_type_dict
\* is given) C are allocated once, before the loop over the leaflets (lines
\* 463-467); each leaflet overwrites them in place, and out_dict[leaf] holds
\* the same array objects for every leaflet: at return each entry shows what
\* the last leaflet wrote.  With color_type_dict C starts as a list (line
\* 472): an item assignment C[npt] = ... to the empty list raises IndexError,
\* and after the first leaflet C is rebound to an ndarray (line 502), which
\* has no append.
get_xyzc(self, leaflet, zvalue_dict, color_dict, color_grid, color_type_dict) ==
    LET leaves == do_leaflet(leaflet)
        npoints == self.nbins_x * self.nbins_y
        Pt(k) == CellAt(k - 1, self.nbins_y)
        Ic(leaf, k) == get_index_at(self.leaf_grid[leaf], Pt(k)[1], Pt(k)[2])
        \* What C is when the j-th leaflet of do_leaflet starts.
        CKind(j) == IF ~color_type_dict.given THEN "ndarray"
                    ELSE IF j = 1 THEN "list" ELSE "ndarray"
        \* lines 478-497 at grid point k of leaflet leaves[j]
        PointErr(j, k) ==
            IF zvalue_dict.given /\ Ic(leaves[j], k) \notin DOMAIN zvalue_dict.at
            THEN "KeyError"
            ELSE IF color_dict.given
                    /\ Ic(leaves[j], k) \notin DOMAIN color_dict.at
            THEN "IndexError"
            ELSE IF color_dict.given /\ CKind(j) = "list" THEN "IndexError"
            ELSE IF color_grid.given /\ CKind(j) = "list" THEN "IndexError"
            ELSE IF color_type_dict.given
                    /\ self.frame.lipidcom[Ic(leaves[j], k)].type
                          \notin DOMAIN color_type_dict.at
            THEN "KeyError"
            ELSE IF color_type_dict.given /\ CKind(j) = "ndarray"
            THEN "AttributeError"
            ELSE "none"
        Failing == {jk \in (DOMAIN leaves) \X (1..npoints) :
                       PointErr(jk[1], jk[2]) # "none"}
        FirstFailing ==
            CHOOSE jk \in Failing :
                \A other \in Failing :
                    \/ jk[1] < other[1]
                    \/ jk[1] = other[1] /\ jk[2] <= other[2]
        \* The arrays as the last leaflet left them.
        last == leaves[Len(leaves)]
        X == [k \in 1..npoints |-> self.leaf_grid[last].x_centers[Pt(k)[1]]]
        Y == [k \in 1..npoints |-> self.leaf_grid[last].y_centers[Pt(k)[2]]]
        Z == [k \in 1..npoints |->
                 IF zvalue_dict.given THEN zvalue_dict.at[Ic(last, k)]
                 ELSE get_z_at(self.leaf_grid[last], Pt(k)[1], Pt(k)[2])]
        \* lines 467-470, 488-491
        Row(v) == IF color_dict.given /\ color_dict.ndim = 2
                  THEN [j \in DOMAIN color_dict.at[0] |-> v] ELSE v
        C_array ==
            [k \in 1..npoints |->
                IF color_grid.given THEN Row(color_grid.at[Pt(k)])
                ELSE IF color_dict.given THEN color_dict.at[Ic(last, k)]
                ELSE Row(0)]
        \* lines 492-495, 501-502: the colours appended for one leaflet
        C_types(leaf) ==
            [k \in 1..npoints |->
                color_type_dict.at[self.frame.lipidcom[Ic(leaf, k)].type]]
        out_dict ==
            [leaf \in SeqRange(leaves) |->
                <<X, Y, Z,
                  IF color_type_dict.given THEN C_types(leaf) ELSE C_array>>]
    IN  [self |-> self,
         ret |-> IF npoints < 0 THEN Raises("ValueError")
                 ELSE IF Failing # {}
                 THEN Raises(PointErr(FirstFailing[1], FirstFailing[2]))
                 ELSE Returns(out_dict)]

-----------------------------------------------------------------------------
(* grid_curvature (lines 28-80) and LipidGrids.curvature (lines 424-438) *)

\* numpy.gradient(f, h0, h1) of a 2d array with at least two points along
\* each axis: element 0 differentiates along axis 0 with spacing h0, element
\* 1 along axis 1 with spacing h1; central differences inside, one-sided
\* differences at the two ends.
GradientAlong(f, axis, h, n) ==
    [c \in DOMAIN f |->
        LET i == c[axis]
            At(m) == f[IF axis = 1 THEN <<m, c[2]>> ELSE <<c[1], m>>]
        IN  IF i = 0 THEN RDiv(RSub(At(1), At(0)), h)
            ELSE IF i = n - 1 THEN RDiv(RSub(At(n - 1), At(n - 2)), h)
            ELSE RDiv(RSub(At(i + 1), At(i - 1)), RMul(R(2), h))]

gradient(f, h0, h1, n0, n1) ==
    <<GradientAlong(f, 1, h0, n0), GradientAlong(f, 2, h1, n1)>>

Dot(u, v) == RAdd(RAdd(RMul(u[1], v[1]), RMul(u[2], v[2])), RMul(u[3], v[3]))
Cross(u, v) ==
    <<RSub(RMul(u[2], v[3]), RMul(u[3], v[2])),
      RSub(RMul(u[3], v[1]), RMul(u[1], v[3])),
      RSub(RMul(u[1], v[2]), RMul(u[2], v[1]))>>

\* Lines 58-70 at one grid vertex: the tangent vectors and the coefficients
\* of the two fundamental forms.  n is normalised by its length, a square
\* root: the model keeps n unnormalised, so L, M and N here are the code's L,
\* M and N times sqrt(n_sq), where n_sq is the squared length of n.
FundamentalForms(x_incr, y_incr, sx_c, sy_c, ssx, ssy, ssxy) ==
    LET sx_v == <<x_incr, R(0), sx_c>>
        sy_v == <<R(0), y_incr, sy_c>>
        ssx_v == <<x_incr, R(0), ssx>>
        ssy_v == <<R(0), y_incr, ssy>>
        ssxy_v == <<R(0), y_incr, ssxy>>
        Forms(n) ==
            [E |-> Dot(sx_v, sx_v), F |-> Dot(sx_v, sy_v), G |-> Dot(sy_v, sy_v),
             n_sq |-> Dot(n, n),
             L |-> Dot(ssx_v, n), M |-> Dot(ssxy_v, n), N |-> Dot(ssy_v, n)]
    IN  Forms(Cross(sx_v, sy_v))

\* Lines 53-76 at one grid vertex.  The mean curvature is given by the exact
\* pair (J_n, n_sq) with J = J_n / sqrt(n_sq); the Gaussian curvature K is
\* rational.  A zero n or a zero denominator gives NaN, as the division does
\* in numpy.
VertexCurvature(x_incr, y_incr, sx_c, sy_c, ssx, ssy, ssxy) ==
    LET \* lines 72 and 74
        JK(ff, EG_F) ==
            IF ff.n_sq.d = 0 \/ ff.n_sq.n = 0
            THEN [J_n |-> NaN, n_sq |-> ff.n_sq, K |-> NaN]
            ELSE [J_n |-> RDiv(RSub(RAdd(RMul(ff.E, ff.N), RMul(ff.G, ff.L)),
                                    RMul(R(2), RMul(ff.F, ff.M))),
                               RMul(R(2), RMul(EG_F, EG_F))),
                  n_sq |-> ff.n_sq,
                  K |-> RDiv(RDiv(RSub(RMul(ff.L, ff.N), RMul(ff.M, ff.M)),
                                  ff.n_sq),
                             RSub(RMul(ff.E, ff.G), RMul(ff.F, ff.F)))]
        Of(ff) == JK(ff, RSub(RMul(ff.E, ff.G), ff.F))
    IN  Of(FundamentalForms(x_incr, y_incr, sx_c, sy_c, ssx, ssy, ssxy))

\* scipy.ndimage gaussian_filter(z_grid, sigma, mode=mode): a new array.  The
\* filter is outside this repository; its output is kept as the term that
\* names its arguments.  Unfiltered(z_grid) is the array itself.
gaussian_filter(z_grid, sigma, mode) ==
    [filtered |-> TRUE, input |-> z_grid, sigma |-> sigma, mode |-> mode]
Unfiltered(z_grid) ==
    [filtered |-> FALSE, input |-> z_grid]

\* Lines 44-46: the first and second derivatives of a 2d array of rationals
\* with nxb by nyb points, as grid_curvature names them.
Slopes(zgrid, x_incr, y_incr, nxb, nyb) ==
    LET Pack(sy, sx, gy, gx) ==
            [sx |-> sx, sy |-> sy, sxx |-> gx[2], syy |-> gy[1], sxy |-> gx[1]]
        \* lines 45-46
        Second(sy, sx) ==
            Pack(sy, sx, gradient(sy, y_incr, x_incr, nxb, nyb),
                         gradient(sx, y_incr, x_incr, nxb, nyb))
        \* line 44: [sy, sx] = np.gradient(zgrid, y_incr, x_incr)
        First(g) == Second(g[1], g[2])
    IN  First(gradient(zgrid, y_incr, x_incr, nxb, nyb))

grid_curvature(x_vals, y_vals, zgrid) ==
    LET nxb == Len0(x_vals)
        nyb == Len0(y_vals)
        Out(v) ==
            Returns(<<[c \in Cells(nxb, nyb) |->
                         [J_n |-> v[c].J_n, n_sq |-> v[c].n_sq]],
                      [c \in Cells(nxb, nyb) |-> v[c].K]>>)
        \* lines 48-80
        Vertices(x_incr, y_incr, s) ==
            Out([c \in Cells(nxb, nyb) |->
                    VertexCurvature(x_incr, y_incr, s.sx[c], s.sy[c],
                                    s.sxx[c], s.syy[c], s.sxy[c])])
        Curv(x_incr, y_incr) ==
            IF zgrid.filtered
            THEN Returns([fn |-> "grid_curvature", x_vals |-> x_vals,
                          y_vals |-> y_vals, zgrid |-> zgrid])
            ELSE Vertices(x_incr, y_incr,
                          Slopes([c \in DOMAIN zgrid.input |-> R(zgrid.input[c])],
                                 x_incr, y_incr, nxb, nyb))
    IN  IF nxb < 2 \/ nyb < 2 THEN Raises("IndexError")   \* x_vals[1], y_vals[1]
        ELSE Curv(RSub(x_vals[1], x_vals[0]), RSub(y_vals[1], y_vals[0]))

curvature(self, use_gaussian_filter, filter_sigma, filter_mode) ==
    LET Leaf(leaf) ==
            LET x_vals == self.leaf_grid[leaf].x_centers
                y_vals == self.leaf_grid[leaf].y_centers
                z_grid == self.leaf_grid[leaf].lipid_grid_z
            IN  grid_curvature(x_vals, y_vals,
                    IF use_gaussian_filter
                    THEN gaussian_filter(z_grid, filter_sigma, filter_mode)
                    ELSE Unfiltered(z_grid))
        Pair(curv_upper, curv_lower) ==
            IF curv_upper.err # "none" THEN curv_upper
            ELSE IF curv_lower.err # "none" THEN curv_lower
            ELSE Returns(<<curv_upper.val, curv_lower.val>>)
    IN  [self |-> self, ret |-> Pair(Leaf("upper"), Leaf("lower"))]

-----------------------------------------------------------------------------
\* The call LipidGrids(com_frame, leaflets, plane, nxbins, nybins) is about
\* to be made, for a frame with the lateral box ctor_args.box, one of boxes.
InitFor(boxes) ==
    /\ pc = "new"
    /\ ctor_args \in [nxbins : BinCounts, nybins : BinCounts, box : boxes]
    /\ ctor_err = "none"
    /\ frame = None
    /\ leaflets = None
    /\ nbins_x = None
    /\ nbins_y = None
    /\ leaf_grid = None
    /\ key_order = None
    /\ call = NoCall
    /\ ret = NoRet

\* LipidGrids(com_frame, leaflets, plane, nxbins, nybins)
Construct ==
    /\ pc = "new"
    /\ \E com_frame \in Frames(ctor_args.box[1], ctor_args.box[2]),
          m \in MemberLists, keys \in Perms(LeafNames) :
          LET nxbins == ctor_args.nxbins
              nybins == ctor_args.nybins
              \* g is what LipidGrids(com_frame, lfs, ...) made.
              Made(lfs, g) ==
                  /\ ctor_err' = g.err
                  /\ IF g.err = "none"
                     THEN /\ pc' = "built"
                          /\ frame' = com_frame
                          /\ leaflets' = lfs
                          /\ nbins_x' = nxbins
                          /\ nbins_y' = nybins
                          /\ leaf_grid' = g.leaf_grid
                          /\ key_order' = keys
                     ELSE /\ pc' = "failed"
                          /\ UNCHANGED <<frame, leaflets, nbins_x, nbins_y,
                                         leaf_grid, key_order>>
              New(lfs) ==
                  Made(lfs, LipidGrids_init(com_frame, lfs, nxbins, nybins))
          IN  New([leaf \in LeafNames |-> Leaflet(com_frame, m[leaf])])
    /\ UNCHANGED <<ctor_args, call, ret>>

-----------------------------------------------------------------------------
(* Calls on the built object. *)

Self ==
    [frame |-> frame, leaflets |-> leaflets, nbins_x |-> nbins_x,
     nbins_y |-> nbins_y, leaf_grid |-> leaf_grid, key_order |-> key_order]

\* The call c is made and returns r: the object after the method returned,
\* and what the caller got.  A caller that holds the result of a call either
\* repeats that call or drops the result (DropResult) before the next one.
Returned(c, r) ==
    /\ call = NoCall \/ call = c
    /\ frame' = r.self.frame
    /\ leaflets' = r.self.leaflets
    /\ nbins_x' = r.self.nbins_x
    /\ nbins_y' = r.self.nbins_y
    /\ leaf_grid' = r.self.leaf_grid
    /\ key_order' = r.self.key_order
    /\ call' = c
    /\ ret' = r.ret
    /\ UNCHANGED <<pc, ctor_args, ctor_err>>

\* The leaflet selectors offered; "top" is not one the code knows.
Selectors == {"upper", "lower", "both", "top"}

\* The per-lipid values offered to map_to_grid: lipid i has the value 10 + i,
\* and the dict holds any subset of the lipids.
ValueDicts == {[i \in S |-> 10 + i] : S \in SUBSET LipidIds}

\* The grid offered to grid_to_dict: each grid point holds its own number.
InGrid == [c \in Cells(nbins_x, nbins_y) |-> c[1] * nbins_y + c[2]]

ThicknessGrid ==
    /\ pc = "built"
    /\ Returned([op |-> "thickness_grid"], thickness_grid(Self))

AverageThickness ==
    /\ pc = "built"
    /\ \E return_grid \in BOOLEAN :
          Returned([op |-> "average_thickness", return_grid |-> return_grid],
                   average_thickness(Self, return_grid))

MapToGrid ==
    /\ pc = "built"
    /\ \E com_values_dict \in ValueDicts, leaflet \in Selectors :
          Returned([op |-> "map_to_grid", com_values_dict |-> com_values_dict,
                    leaflet |-> leaflet],
                   map_to_grid(Self, com_values_dict, leaflet))

AreaPerLipid ==
    /\ pc = "built"
    /\ Returned([op |-> "area_per_lipid"], area_per_lipid(Self))

Curvature ==
    /\ pc = "built"
    /\ \E use_gaussian_filter \in BOOLEAN :
          Returned([op |-> "curvature",
                    use_gaussian_filter |-> use_gaussian_filter],
                   curvature(Self, use_gaussian_filter, 10, "nearest"))

ZPerturbGrid ==
    /\ pc = "built"
    /\ \E leaf \in LeafNames :
          LET r == z_perturb_grid(leaf_grid[leaf])
          IN  Returned([op |-> "z_perturb_grid", leaflet |-> leaf],
                       [self |-> [Self EXCEPT !.leaf_grid[leaf] = r.self],
                        ret |-> r.ret])

GridToDict ==
    /\ pc = "built"
    /\ \E leaflet \in LeafNames :
          Returned([op |-> "grid_to_dict", leaflet |-> leaflet],
                   grid_to_dict(Self, InGrid, leaflet))

GetIntegerTypeArrays ==
    /\ pc = "built"
    /\ Returned([op |-> "get_integer_type_arrays"],
                get_integer_type_arrays(Self))

GetOneArrayPerLeaflet ==
    /\ pc = "built"
    /\ Returned([op |-> "get_one_array_per_leaflet"],
                get_one_array_per_leaflet(Self))

\* The optional arguments offered to get_xyzc, each complete for the lipids,
\* the grid points and the species of the frame: every combination of the
\* three colour arguments with the heights of the grid, and a zvalue_dict
\* with or without a two-column color_dict and a color_grid.
ZValues == [i \in LipidIds |-> 10 + i]
Colors == [i \in LipidIds |-> 20 + i]
ColorRows == [i \in LipidIds |-> <<20 + i, 30 + i>>]
TypeColors == [t \in {"POPC", "DOPE"} |-> IF t = "POPC" THEN 40 ELSE 41]
XyzcArgs ==
    [zvalue_dict : {NotGiven}, color_dict : {NotGiven, Given(Colors)},
     color_grid : {NotGiven, Given(InGrid)},
     color_type_dict : {NotGiven, Given(TypeColors)}]
    \cup
    [zvalue_dict : {Given(ZValues)}, color_dict : {NotGiven, Given2d(ColorRows)},
     color_grid : {NotGiven, Given(InGrid)}, color_type_dict : {NotGiven}]

GetXyzc ==
    /\ pc = "built"
    /\ \E leaflet \in Selectors, a \in XyzcArgs :
          Returned([op |-> "get_xyzc", leaflet |-> leaflet,
                    zvalue_dict |-> a.zvalue_dict, color_dict |-> a.color_dict,
                    color_grid |-> a.color_grid,
                    color_type_dict |-> a.color_type_dict],
                   get_xyzc(Self, leaflet, a.zvalue_dict, a.color_dict,
                            a.color_grid, a.color_type_dict))

\* The caller is done with the result of the last call.
DropResult ==
    /\ call # NoCall
    /\ call' = NoCall
    /\ ret' = NoRet
    /\ UNCHANGED <<pc, ctor_args, ctor_err, frame, leaflets, nbins_x, nbins_y,
                   leaf_grid, key_order>>

Next ==
    \/ Construct
    \/ ThicknessGrid
    \/ AverageThickness
    \/ MapToGrid
    \/ AreaPerLipid
    \/ Curvature
    \/ ZPerturbGrid
    \/ GridToDict
    \/ GetIntegerTypeArrays
    \/ GetOneArrayPerLeaflet
    \/ GetXyzc
    \/ DropResult

\* Construction alone, for every box offered.
SpecConstruct == InitFor(BoxLengths \X BoxLengths) /\ [][Construct]_vars

\* Construction and the calls on the built object, for the largest box and
\* for a box of no extent along x.
CallBoxes == {<<MaxBox, MaxBox>>, <<0, MaxBox>>}
Spec == InitFor(CallBoxes) /\ [][Next]_vars

-----------------------------------------------------------------------------
(* The properties checked of construction (under SpecConstruct). *)

Built == pc = "built"
Members(leaf) == SeqRange(leaflets[leaf].member_indices)
GridCells == Cells(nbins_x, nbins_y)

\* C1: after construction with any candidate list, every cell of lipid_grid
\* holds an index that is a member of the candidate list of its leaflet.
C1_ClosedWorld ==
    Built => \A leaf \in LeafNames : \A c \in GridCells :
                leaf_grid[leaf].lipid_grid[c] \in Members(leaf)

\* The centre of cell (cx, cy) of a grid: the midpoint between the edges
\* that bound the cell on each axis.
CellCentre(grid, c) ==
    <<RDiv(RAdd(grid.x_edges[c[1]], grid.x_edges[c[1] + 1]), R(2)),
      RDiv(RAdd(grid.y_edges[c[2]], grid.y_edges[c[2] + 1]), R(2))>>

\* C2: for every cell, no candidate lipid is strictly closer to the cell
\* centre, by the constructor's own distance formula, than the lipid recorded
\* in lipid_grid for that cell.
C2_NoCloserCandidate ==
    Built => \A leaf \in LeafNames : \A c \in GridCells :
                LET grid == leaf_grid[leaf]
                    p == CellCentre(grid, c)
                IN  \A i \in Members(leaf) :
                       ~RLess(PlanarDist2(frame, i, p[1], p[2]),
                              PlanarDist2(frame, grid.lipid_grid[c], p[1], p[2]))

\* The shape C4 gives one axis of N bins over [0, box_len].
AxisWellFormed(edges, centers, incr, box_len, N) ==
    /\ Len0(edges) = N + 1
    /\ Len0(centers) = N
    /\ incr = RDiv(R(box_len), R(N))
    /\ \A j \in 0..(N - 1) :
          /\ centers[j] = RAdd(edges[j], RDiv(incr, R(2)))
          /\ RLess(edges[j], centers[j])
          /\ RLess(centers[j], edges[j + 1])

\* C4: for any nxbins >= 1, nybins >= 1 and positive box lengths, construction
\* yields, for both axes, N+1 edges, N centers, increment = (max-min)/N and
\* centers[j] = edges[j] + increment/2, strictly between edges[j] and
\* edges[j+1].
C4_AxesWellFormed ==
    (/\ pc # "new"
     /\ ctor_args.nxbins >= 1 /\ ctor_args.nybins >= 1
     /\ ctor_args.box[1] > 0 /\ ctor_args.box[2] > 0)
    => /\ Built
       /\ \A leaf \in LeafNames :
             LET grid == leaf_grid[leaf]
             IN  /\ AxisWellFormed(grid.x_edges, grid.x_centers, grid.x_incr,
                                   ctor_args.box[1], ctor_args.nxbins)
                 /\ AxisWellFormed(grid.y_edges, grid.y_centers, grid.y_incr,
                                   ctor_args.box[2], ctor_args.nybins)

\* C8: construction ends in an error, and produces no grid, whenever a bin
\* count is < 1 or a lateral box length is not positive.
C8_InvalidSpecRejected ==
    (/\ pc # "new"
     /\ \/ ctor_args.nxbins < 1 \/ ctor_args.nybins < 1
        \/ ctor_args.box[1] <= 0 \/ ctor_args.box[2] <= 0)
    => pc = "failed" /\ leaf_grid = None

-----------------------------------------------------------------------------
(* The properties checked of the calls on a built object (under Spec). *)

RECURSIVE SumOver(_, _, _)
SumOver(areas, members, k) ==
    IF k > Len(members) THEN R(0)
    ELSE RAdd(areas[members[k]], SumOver(areas, members, k + 1))

\* C3: in the result of area_per_lipid, the per-lipid areas of the lipids of
\* one leaflet sum to the total grid area nx * ny * x_incr * y_incr.
C3_AreaPartition ==
    (call.op = "area_per_lipid" /\ ret.err = "none") =>
        \A leaf \in LeafNames :
            SumOver(ret.val[3], leaflets[leaf].member_indices, 1)
              = RMul(R(nbins_x * nbins_y),
                     RMul(leaf_grid[leaf].x_incr, leaf_grid[leaf].y_incr))

\* C5: thickness_grid returns, without an exception, for every cell exactly
\* the upper leaflet's z minus the lower leaflet's z of that cell, negative
\* or not; upper z all 5 and lower z all 2 give 3 in every cell.
C5_ThicknessIsDifference ==
    call.op = "thickness_grid" =>
        /\ ret.err = "none"
        /\ DOMAIN ret.val = GridCells
        /\ \A c \in GridCells :
              ret.val[c] = leaf_grid["upper"].lipid_grid_z[c]
                           - leaf_grid["lower"].lipid_grid_z[c]
        /\ (\A c \in GridCells : /\ leaf_grid["upper"].lipid_grid_z[c] = 5
                                 /\ leaf_grid["lower"].lipid_grid_z[c] = 2)
           => \A c \in GridCells : ret.val[c] = 3

C5_NegativeThickness ==
    /\ call.op = "thickness_grid"
    /\ ret.err = "none"
    /\ \E c \in GridCells : ret.val[c] < 0 /\ c \in ret.warnings

\* The leaflets the selector sel stands for: the one it names, and both for
\* "both" and for every value that is not a selector.
Processed(sel) == IF sel \in {"upper", "lower"} THEN {sel} ELSE {"upper", "lower"}

\* Some cell of a leaflet of leaves holds a lipid that d has no value for.
ValueMissing(d, leaves) ==
    \E leaf \in leaves : \E c \in GridCells :
        leaf_grid[leaf].lipid_grid[c] \notin DOMAIN d

\* C6: map_to_grid with "upper" or "lower" returns a result keyed by that
\* leaflet alone, and with "both" or any unknown selector a result keyed by
\* exactly {upper, lower}; the selector never makes the call fail: with a
\* value for every lipid the call returns, and a call that fails lacks a
\* value for a lipid of a leaflet the selector stands for.
C6_SelectorKeys ==
    call.op = "map_to_grid" =>
        /\ ret.err = "none" =>
              /\ DOMAIN ret.val = Processed(call.leaflet)
              /\ \A leaf \in Processed(call.leaflet) :
                    DOMAIN ret.val[leaf] = GridCells
        /\ DOMAIN call.com_values_dict = LipidIds => ret.err = "none"
        /\ ret.err # "none" =>
              ValueMissing(call.com_values_dict, Processed(call.leaflet))

C6_UnknownSelector ==
    /\ call.op = "map_to_grid"
    /\ call.leaflet = "top"
    /\ ret.err = "none"
    /\ DOMAIN ret.val = {"upper", "lower"}

\* C7: map_to_grid, when a lipid assigned to a cell of a processed leaflet
\* has no entry in the mapping, raises an error and returns no grid.
C7_MissingValueRaises ==
    (/\ call.op = "map_to_grid"
     /\ ValueMissing(call.com_values_dict, Processed(call.leaflet)))
    => ret.err = "KeyError" /\ "val" \notin DOMAIN ret

C7_PartialMapping ==
    /\ call.op = "map_to_grid"
    /\ DOMAIN call.com_values_dict # {}
    /\ ValueMissing(call.com_values_dict, Processed(call.leaflet))
    /\ ret.err = "KeyError"

\* The labels of the leaflets, leaflet after leaflet in the order in which
\* the object's dict yields its keys.
LabelsInOrder ==
    leaflets[key_order[1]].group_names \o leaflets[key_order[2]].group_names

FirstSeen(names, a) ==
    CHOOSE k \in DOMAIN names :
        names[k] = a /\ \A j \in 1..(k - 1) : names[j] # a

\* The id of a label: the number of labels first seen before it.
FirstSeenIds ==
    [a \in SeqRange(LabelsInOrder) |->
        Cardinality({b \in SeqRange(LabelsInOrder) :
                        FirstSeen(LabelsInOrder, b) < FirstSeen(LabelsInOrder, a)})]

\* C9: when a type-encoding helper returns, the ids are 0, 1, ... in the
\* order in which the labels are first seen over the leaflets, a function of
\* the object alone; distinct labels have distinct ids, a label has one id
\* whatever leaflet it is in, and every cell holds the id of the label of the
\* lipid assigned to it.
C9_TypeIds ==
    /\ (call.op = "get_integer_type_arrays" /\ ret.err = "none") =>
          LET g2i == ret.val[2]
          IN  /\ g2i = FirstSeenIds
              /\ \A a \in DOMAIN g2i : \A b \in DOMAIN g2i :
                    a # b => g2i[a] # g2i[b]
              /\ \A leaf \in LeafNames : \A c \in GridCells :
                    ret.val[1][leaf][c]
                      = g2i[frame.lipidcom[leaf_grid[leaf].lipid_grid[c]].type]
    /\ (call.op = "get_one_array_per_leaflet" /\ ret.err = "none") =>
          \A leaf \in LeafNames : \A k \in DOMAIN ret.val[leaf] :
              LET entry == ret.val[leaf][k]
              IN  /\ entry[3] = leaf_grid[leaf].lipid_grid[CellAt(k - 1, nbins_y)]
                  /\ entry[5] = frame.lipidcom[entry[3]].type
                  /\ entry[4] = FirstSeenIds[entry[5]]

C9_TwoLabels ==
    /\ call.op = "get_integer_type_arrays"
    /\ ret.err = "none"
    /\ Cardinality(DOMAIN ret.val[2]) = 2
    /\ \E leaf \in LeafNames : \E c \in GridCells : ret.val[1][leaf][c] = 1
    /\ \E leaf \in LeafNames : \E c \in GridCells : ret.val[1][leaf][c] = 0

\* C10: every call on a built object leaves the frame, the leaflets and the
\* grids (lipid_grid, lipid_grid_z, edges and centers of both leaflets) as
\* they were, and a call repeated with the same arguments returns the same
\* result.
C10_CallsLeaveObjectUnchanged ==
    [][Built => /\ leaf_grid' = leaf_grid
                /\ frame' = frame
                /\ leaflets' = leaflets
                /\ nbins_x' = nbins_x /\ nbins_y' = nbins_y
                /\ (call # NoCall /\ call' = call) => ret' = ret]_vars

C10_PerturbationReturned ==
    /\ call.op = "z_perturb_grid"
    /\ ret.err = "none"
    /\ \E c \in GridCells : ret.val[c] # R(0)

-----------------------------------------------------------------------------
(* The properties checked of the nearest-lipid assignment (under             *)
(* SpecConstruct).                                                           *)

RMin(a, b) == IF RLess(b, a) THEN b ELSE a

\* The periodic distance along one axis of length box_len between two
\* coordinates that differ by d: min(|d|, box_len - |d|).
PeriodicDist(d, box_len) == RMin(RAbs(d), RSub(R(box_len), RAbs(d)))

\* The squared periodic planar distance from the point (x, y) to lipid i,
\* each axis folded against its own box length.
PeriodicDist2(com_frame, i, x, y) ==
    LET Sq(px, py) == RAdd(RMul(px, px), RMul(py, py))
    IN  Sq(PeriodicDist(RSub(x, R(com_frame.lipidcom[i].com[1])),
                        com_frame.box[1]),
           PeriodicDist(RSub(y, R(com_frame.lipidcom[i].com[2])),
                        com_frame.box[2]))

\* C11: in a box of positive lengths the distance the assignment uses from
\* a grid point to a candidate lipid is the periodic distance, each axis
\* corrected against its own half box length, also when box_x # box_y.
C11_PerAxisMinimumImage ==
    (Built /\ frame.box[1] > 0 /\ frame.box[2] > 0) =>
        \A leaf \in LeafNames : \A c \in GridCells : \A i \in Members(leaf) :
            LET grid == leaf_grid[leaf]
            IN  PlanarDist2(frame, i, grid.x_centers[c[1]], grid.y_centers[c[2]])
                  = PeriodicDist2(frame, i, grid.x_centers[c[1]],
                                  grid.y_centers[c[2]])

\* The positions in the candidate list of the lipids that are, by the
\* constructor's distance formula, at the minimal distance from (x, y).
Nearest(com_frame, indices, x, y) ==
    {k \in DOMAIN indices :
        \A j \in DOMAIN indices :
            ~RLess(PlanarDist2(com_frame, indices[j], x, y),
                   PlanarDist2(com_frame, indices[k], x, y))}

\* The first of a non-empty set of positions.
FirstOf(ks) == CHOOSE k \in ks : \A j \in ks : k <= j

\* C12: when two or more candidates are at the same minimal distance from the
\* centre of a cell, the cell holds the one that comes first in the candidate
\* list, and the cell's height is that lipid's unwrapped z.
C12_FirstOfTiedWins ==
    Built => \A leaf \in LeafNames : \A c \in GridCells :
                LET grid == leaf_grid[leaf]
                    indices == leaflets[leaf].member_indices
                    p == CellCentre(grid, c)
                    Chosen(tied) ==
                        /\ grid.lipid_grid[c] = indices[FirstOf(tied)]
                        /\ grid.lipid_grid_z[c]
                             = frame.lipidcom[indices[FirstOf(tied)]].com_unwrap
                    Tie(tied) == Cardinality(tied) >= 2 => Chosen(tied)
                IN  Tie(Nearest(frame, indices, p[1], p[2]))

-----------------------------------------------------------------------------
(* The properties checked of the calls on the built object (under Spec),   *)
(* continued: curvature.                                                    *)

\* An unsmoothed curvature() call has returned its pair of curvature maps.
CurvatureReturned ==
    /\ call.op = "curvature"
    /\ ~call.use_gaussian_filter
    /\ ret.err = "none"

\* The derivatives grid_curvature takes of the height grid of a leaflet.
SlopesOf(grid) ==
    Slopes([c \in DOMAIN grid.lipid_grid_z |-> R(grid.lipid_grid_z[c])],
           RSub(grid.x_centers[1], grid.x_centers[0]),
           RSub(grid.y_centers[1], grid.y_centers[0]),
           Len0(grid.x_centers), Len0(grid.y_centers))

\* The fundamental forms grid_curvature takes at vertex c of a leaflet.
FormsAt(grid, c) ==
    LET At(x_incr, y_incr, s) ==
            FundamentalForms(x_incr, y_incr, s.sx[c], s.sy[c],
                             s.sxx[c], s.syy[c], s.sxy[c])
    IN  At(RSub(grid.x_centers[1], grid.x_centers[0]),
           RSub(grid.y_centers[1], grid.y_centers[0]), SlopesOf(grid))

\* The determinant E*G - F^2 of the first fundamental form.
Determinant(ff) == RSub(RMul(ff.E, ff.G), RMul(ff.F, ff.F))

\* J and K as functions of the fundamental forms, with the determinant in
\* both denominators; J is given, like the code's, up to the factor
\* 1 / sqrt(n_sq) of the normalised n.
MeanFromForms(ff) ==
    IF ff.n_sq.d = 0 \/ ff.n_sq.n = 0 THEN NaN
    ELSE RDiv(RSub(RAdd(RMul(ff.E, ff.N), RMul(ff.G, ff.L)),
                   RMul(R(2), RMul(ff.F, ff.M))),
              RMul(R(2), RMul(Determinant(ff), Determinant(ff))))
GaussFromForms(ff) ==
    IF ff.n_sq.d = 0 \/ ff.n_sq.n = 0 THEN NaN
    ELSE RDiv(RDiv(RSub(RMul(ff.L, ff.N), RMul(ff.M, ff.M)), ff.n_sq),
              Determinant(ff))

LeafAt(k) == IF k = 1 THEN "upper" ELSE "lower"

\* C13: at every vertex the mean curvature returned is
\* (E*N + G*L - 2*F*M) / (2*(E*G - F^2)^2) and the Gaussian curvature returned
\* is (L*N - M^2) / (E*G - F^2), both with the determinant E*G - F^2.
C13_CurvatureFormulas ==
    CurvatureReturned =>
        \A k \in 1..2 : \A c \in GridCells :
            LET Same(ff) ==
                    /\ ret.val[k][1][c].J_n = MeanFromForms(ff)
                    /\ ret.val[k][1][c].n_sq = ff.n_sq
                    /\ ret.val[k][2][c] = GaussFromForms(ff)
            IN  Same(FormsAt(leaf_grid[LeafAt(k)], c))

\* The central finite difference (one-sided at the two ends) of the height
\* grid of a leaflet along the x index over the x spacing, and along the y
\* index over the y spacing.
DzDx(grid) ==
    GradientAlong([c \in DOMAIN grid.lipid_grid_z |-> R(grid.lipid_grid_z[c])],
                  1, RSub(grid.x_centers[1], grid.x_centers[0]),
                  Len0(grid.x_centers))
DzDy(grid) ==
    GradientAlong([c \in DOMAIN grid.lipid_grid_z |-> R(grid.lipid_grid_z[c])],
                  2, RSub(grid.y_centers[1], grid.y_centers[0]),
                  Len0(grid.y_centers))

\* C14: in an unsmoothed curvature() call, the slope grid_curvature uses as
\* dz/dx at each vertex is the finite difference of the heights along the x
\* index over the x spacing, and the slope it uses as dz/dy is the finite
\* difference along the y index over the y spacing.
C14_SlopesFollowAxes ==
    CurvatureReturned =>
        \A leaf \in LeafNames :
            LET Same(s) ==
                    /\ s.sx = DzDx(leaf_grid[leaf])
                    /\ s.sy = DzDy(leaf_grid[leaf])
            IN  Same(SlopesOf(leaf_grid[leaf]))

\* A get_xyzc call for both leaflets has been made.
XyzcOfBoth == call.op = "get_xyzc" /\ call.leaflet \notin {"upper", "lower"}

\* The heights (or the zvalue_dict values) of the grid points of a leaflet,
\* in the order get_xyzc visits them.
HeightsOf(leaf) ==
    [k \in 1..(nbins_x * nbins_y) |->
        IF call.zvalue_dict.given
        THEN call.zvalue_dict.at[leaf_grid[leaf].lipid_grid[CellAt(k - 1, nbins_y)]]
        ELSE leaf_grid[leaf].lipid_grid_z[CellAt(k - 1, nbins_y)]]

\* C15: a get_xyzc call for both leaflets returns without an error, whatever
\* colour arguments it was given, and the Z it returns under 'upper' holds
\* the heights (or values) of the upper leaflet's grid points.
C15_LeafletsIndependent ==
    XyzcOfBoth =>
        /\ ret.err = "none"
        /\ ret.val["upper"][3] = HeightsOf("upper")

====
